---- MODULE Spec2Model ----
(***************************************************************************)
(* ERP Copilot (AcuMate): the approval state machine of suggested actions  *)
(* (PendingActionManager) and the feedback ledger with its aggregated      *)
(* pattern statistics and guidance (LearningDatabase).                     *)
(*                                                                         *)
(* Time is counted in minutes.  An optional dictionary key (confirmed_at,  *)
(* rejected_at, ...) and an optional return value (None or an object) are  *)
(* sequences of length 0 or 1.                                             *)
(***************************************************************************)
EXTENDS Integers, Sequences, FiniteSets, TLC

VARIABLES
    now,              \* datetime.now(), in minutes
    ticks,            \* how many times the clock was advanced
    pending_actions,  \* PendingActionManager.pending_actions: action_id -> dict
    issued,           \* number of action ids generated so far
    ret,              \* the last call and what it returned to its caller
    pc,               \* per request thread: the line of confirm/reject it is at
    thread_op,        \* per request thread: the operation it runs
    thread_ret,       \* per request thread: the value its call returned
    stamp_writes,     \* number of executions of line 52 (confirmed_at written)
    frame,            \* per request thread: the local variables of its call
    entries,          \* LearningDatabase.entries: the ledger
    patterns,         \* LearningDatabase.patterns: pattern_key -> statistics
    learning_file,    \* learning_entries.json as last written
    patterns_file,    \* learned_patterns.json as last written
    torn              \* the files whose last write broke off before its end

vars == <<now, ticks, pending_actions, issued, ret, pc, thread_op, thread_ret,
          stamp_writes, frame, entries, patterns, learning_file, patterns_file, torn>>

pendingVars == <<now, ticks, pending_actions, issued, ret>>
raceVars == <<pc, thread_op, thread_ret, stamp_writes, frame>>
learnVars == <<entries, patterns, learning_file, patterns_file, torn>>

(***************************************************************************)
(* Bounds of the model and constants of the program.                       *)
(***************************************************************************)
MaxTicks == 2

expiry_minutes == 30
retention_hours == 24

ActionIds == {1, 2}
Sessions == {"s1", "s2"}
ExecutionResults == {"done"}
\* the next request comes one time-to-live later, or that and the retention later
TickSteps == {expiry_minutes, retention_hours * 60 + expiry_minutes}
ClockSkews == {0, 1}
Threads == {"t1", "t2"}

NoneVal == <<>>
Some(v) == <<v>>
EmptyMap == [k \in {} |-> k]

\* A call and its return value.  The manager returns the stored dictionary
\* itself (a reference) or None: ok says the call returned the dictionary of
\* action id, which is then pending_actions[id]; found is the set of ids a
\* listing returned.
Call(op, id, ok) == [op |-> op, id |-> id, ok |-> ok, found |-> {}]
NoCall == Call("none", 0, FALSE)

\* the locals of record_feedback and _update_patterns: entry, and what the
\* local name pattern (line 292) refers to: nothing yet ("none"), the
\* dictionary stored in self.patterns under the key ("live"), or a dictionary
\* that is no longer in self.patterns ("orphan")
NoFrame == [entry |-> NoneVal, ref |-> "none"]

\* no request thread has started
InitRace ==
    /\ pc = [t \in Threads |-> "idle"]
    /\ thread_op = [t \in Threads |-> "none"]
    /\ thread_ret = [t \in Threads |-> NoneVal]
    /\ stamp_writes = 0
    /\ frame = [t \in Threads |-> NoFrame]

\* LearningDatabase.__init__ (lines 110-111) with no files to load
InitLearn ==
    /\ entries = <<>>
    /\ patterns = EmptyMap
    /\ learning_file = <<>>
    /\ patterns_file = EmptyMap
    /\ torn = {}

(***************************************************************************)
(* PendingActionManager                                                    *)
(***************************************************************************)

\* mutant: the time to live counts as passed at expires_at already
IsExpired_AtBoundary(action, t) == t >= action.expires_at

\* line 47 and line 80: the action's time to live has passed
IsExpired(action, t) == t > action.expires_at

\* mutant: the cleanup reclassifies nothing
ExpirePending_Never(store, t) == store

\* mutant: the cleanup sets expires_at to the time of the sweep
ExpirePending_MovesExpiry(store, t) ==
    [id \in DOMAIN store |->
        IF t > store[id].expires_at /\ store[id].status = "pending"
        THEN [store[id] EXCEPT !.status = "expired", !.expires_at = t]
        ELSE store[id]]

\* lines 76-82: every pending action past its expires_at becomes expired
ExpirePending(store, t) ==
    [id \in DOMAIN store |->
        IF IsExpired(store[id], t) /\ store[id].status = "pending"
        THEN [store[id] EXCEPT !.status = "expired"]
        ELSE store[id]]

\* mutant: the 24 hours are counted from created_at
RemoveOld_FromCreation(store, t) ==
    LET cutoff == t - retention_hours * 60
        keep == {id \in DOMAIN store : ~(store[id].created_at < cutoff)}
    IN  [id \in keep |-> store[id]]

\* lines 84-92: actions whose expires_at is before now - 24 h are deleted
RemoveOld(store, t) ==
    LET cutoff == t - retention_hours * 60
        keep == {id \in DOMAIN store : ~(store[id].expires_at < cutoff)}
    IN  [id \in keep |-> store[id]]

_cleanup_expired(store, t) == RemoveOld(ExpirePending(store, t), t)

\* lines 17-26: the dictionary stored for a new action
NewPendingData(id, session_id, created, expires) ==
    [action_id |-> id,
     session_id |-> session_id,
     created_at |-> created,
     expires_at |-> expires,
     original_action |-> "original_action",
     suggested_action |-> "suggested_action",
     llm_suggestion |-> "llm_suggestion",
     status |-> "pending",
     confirmed_at |-> NoneVal,
     rejected_at |-> NoneVal,
     executed_at |-> NoneVal,
     execution_result |-> NoneVal]

\* mutant: every action gets the same id
NewActionId_Reused(n) == 1

\* line 15: pending_<seconds>_<first 8 hex digits of a uuid4>.  The random
\* part is taken never to repeat: the n-th id is n + 1.
NewActionId(n) == n + 1

\* The clock may advance between the two datetime.now() calls of lines 20-21.
create_pending_action(session_id) ==
    /\ issued < Cardinality(ActionIds)
    /\ \E skew \in ClockSkews :
        LET id == NewActionId(issued)
            data == NewPendingData(id, session_id, now, now + skew + expiry_minutes)
            store == [k \in DOMAIN pending_actions \cup {id} |->
                        IF k = id THEN data ELSE pending_actions[k]]
        IN  /\ now' = now + skew
            /\ pending_actions' = _cleanup_expired(store, now + skew)
            /\ issued' = issued + 1
            /\ ret' = [op |-> "create_pending_action", id |-> id, ok |-> TRUE,
                       found |-> {}, session_id |-> session_id]
    /\ UNCHANGED <<ticks, raceVars, learnVars>>

get_pending_action(id) ==
    /\ pending_actions' = _cleanup_expired(pending_actions, now)
    /\ ret' = Call("get_pending_action", id, id \in DOMAIN pending_actions')
    /\ UNCHANGED <<now, ticks, issued, raceVars, learnVars>>

\* mutant: a confirm after the time to live does not write status expired
ConfirmStore_NoExpiry(store, id, t) ==
    IF id \notin DOMAIN store THEN store
    ELSE IF store[id].status # "pending" THEN store
    ELSE IF IsExpired(store[id], t) THEN store
         ELSE [store EXCEPT ![id].status = "confirmed", ![id].confirmed_at = Some(t)]

\* mutant: confirm_action does not look at the status
ConfirmStore_AnyStatus(store, id, t) ==
    IF id \notin DOMAIN store THEN store
    ELSE IF IsExpired(store[id], t)
         THEN [store EXCEPT ![id].status = "expired"]
         ELSE [store EXCEPT ![id].status = "confirmed", ![id].confirmed_at = Some(t)]

\* mutant: confirm_action looks at the time to live before the status
ConfirmStore_ExpiryFirst(store, id, t) ==
    IF id \notin DOMAIN store THEN store
    ELSE IF IsExpired(store[id], t)
         THEN [store EXCEPT ![id].status = "expired"]
    ELSE IF store[id].status # "pending" THEN store
         ELSE [store EXCEPT ![id].status = "confirmed", ![id].confirmed_at = Some(t)]

\* lines 40-53: the store after confirm_action(id) at time t
ConfirmStore(store, id, t) ==
    IF id \notin DOMAIN store THEN store
    ELSE IF store[id].status # "pending" THEN store
    ELSE IF IsExpired(store[id], t)
         THEN [store EXCEPT ![id].status = "expired"]
         ELSE [store EXCEPT ![id].status = "confirmed", ![id].confirmed_at = Some(t)]

\* lines 40-53: whether confirm_action(id) returns the action (and not None)
ConfirmSucceeds(store, id, t) ==
    /\ id \in DOMAIN store
    /\ store[id].status = "pending"
    /\ ~IsExpired(store[id], t)

\* routes.py 418-423: what the caller of the confirm handler learns from the
\* call of confirm_action: the action, or one message for every None
confirm_response(store, id, t) ==
    IF ConfirmSucceeds(store, id, t)
    THEN [status |-> "confirmed", action |-> Some(ConfirmStore(store, id, t)[id])]
    ELSE [status |-> "error", action |-> NoneVal]

confirm_action(id) ==
    /\ pending_actions' = ConfirmStore(pending_actions, id, now)
    /\ ret' = Call("confirm_action", id, ConfirmSucceeds(pending_actions, id, now))
    /\ UNCHANGED <<now, ticks, issued, raceVars, learnVars>>

\* mutant: reject_action does not look at the status
RejectSucceeds_AnyStatus(store, id) == id \in DOMAIN store

\* line 58: reject_action changes the action
RejectSucceeds(store, id) ==
    /\ id \in DOMAIN store
    /\ store[id].status = "pending"

\* lines 57-62
RejectStore(store, id, t) ==
    IF RejectSucceeds(store, id)
    THEN [store EXCEPT ![id].status = "rejected", ![id].rejected_at = Some(t)]
    ELSE store

reject_action(id) ==
    /\ pending_actions' = RejectStore(pending_actions, id, now)
    /\ ret' = Call("reject_action", id, RejectSucceeds(pending_actions, id))
    /\ UNCHANGED <<now, ticks, issued, raceVars, learnVars>>

\* mutant: only a confirmed action is marked executed
MarkExecutedStore_OnlyConfirmed(store, id, t, execution_result) ==
    IF id \in DOMAIN store /\ store[id].status = "confirmed"
    THEN [store EXCEPT ![id].status = "executed",
                       ![id].executed_at = Some(t),
                       ![id].execution_result = Some(execution_result)]
    ELSE store

\* lines 66-72
MarkExecutedStore(store, id, t, execution_result) ==
    IF id \in DOMAIN store
    THEN [store EXCEPT ![id].status = "executed",
                       ![id].executed_at = Some(t),
                       ![id].execution_result = Some(execution_result)]
    ELSE store

mark_executed(id, execution_result) ==
    /\ pending_actions' = MarkExecutedStore(pending_actions, id, now, execution_result)
    /\ ret' = Call("mark_executed", id, id \in DOMAIN pending_actions)
    /\ UNCHANGED <<now, ticks, issued, raceVars, learnVars>>

\* a listing that does not look at the session
PendingIds_AnySession(store, session_id) ==
    {id \in DOMAIN store : store[id].status = "pending"}

\* lines 97-101: the keys of the dictionary returned
PendingIds(store, session_id) ==
    {id \in DOMAIN store : /\ store[id].session_id = session_id
                           /\ store[id].status = "pending"}

\* lines 96-101: the ids returned, after the cleanup
get_pending_for_session(session_id) ==
    /\ pending_actions' = _cleanup_expired(pending_actions, now)
    /\ ret' = [op |-> "get_pending_for_session", id |-> 0, ok |-> TRUE,
               found |-> PendingIds(pending_actions', session_id),
               session_id |-> session_id]
    /\ UNCHANGED <<now, ticks, issued, raceVars, learnVars>>

\* lines 106-115: the number of stored actions, and of those of each status
\* that occurs
StatusSummary(store) ==
    LET present == {store[id].status : id \in DOMAIN store}
    IN  [total |-> Cardinality(DOMAIN store),
         by_status |-> [st \in present |->
                          Cardinality({id \in DOMAIN store : store[id].status = st})]]

\* lines 103-115
get_status_summary ==
    /\ pending_actions' = _cleanup_expired(pending_actions, now)
    /\ ret' = [op |-> "get_status_summary", id |-> 0, ok |-> TRUE, found |-> {},
               summary |-> StatusSummary(pending_actions')]
    /\ UNCHANGED <<now, ticks, issued, raceVars, learnVars>>

\* time passes between two requests
Tick ==
    /\ ticks < MaxTicks
    /\ \E d \in TickSteps : now' = now + d
    /\ ticks' = ticks + 1
    /\ ret' = NoCall
    /\ UNCHANGED <<pending_actions, issued, raceVars, learnVars>>

\* PendingActionManager.__init__ (lines 9-11); LearningDatabase with no files
Init ==
    /\ now = 0
    /\ ticks = 0
    /\ pending_actions = EmptyMap
    /\ issued = 0
    /\ ret = NoCall
    /\ InitRace
    /\ InitLearn

Next ==
    \/ \E s \in Sessions : create_pending_action(s)
    \/ \E id \in ActionIds : get_pending_action(id)
    \/ \E id \in ActionIds : confirm_action(id)
    \/ \E id \in ActionIds : reject_action(id)
    \/ \E id \in ActionIds, r \in ExecutionResults : mark_executed(id, r)
    \/ \E s \in Sessions : get_pending_for_session(s)
    \/ get_status_summary
    \/ Tick

Spec == Init /\ [][Next]_vars

(***************************************************************************)
(* LearningDatabase                                                        *)
(*                                                                         *)
(* A JSON value that the code reads with dict.get is a string (Str), null  *)
(* (Null) or an absent key (Missing).  A text is a sequence of blocks of   *)
(* 100 characters, so that [:100] and [:200] keep one and two blocks.  A   *)
(* float that the code computes as a quotient is the pair <<numerator,     *)
(* denominator>>.                                                          *)
(***************************************************************************)
MaxEntries == 4
MaxRolling == 11
MaxDisk == 3

RollingSize == 10
SummaryBlocks == 2
ExcerptBlocks == 1
TopRejections == 3
TopPreferred == 3
SimilarWindow == 50
TopSimilar == 5

Str(s) == [kind |-> "str", val |-> s]
Null == [kind |-> "null", val |-> ""]
Missing == [kind |-> "missing", val |-> ""]

\* the keys of a pattern dictionary whose values are numbers (lines 281-285)
NumericKeys == {"total_suggestions", "accepted", "rejected", "ignored", "success_rate"}

Rat(n, d) == <<n, d>>
RatLess(a, b) == a[1] * b[2] < b[1] * a[2]
RatEq(a, b) == a[1] * b[2] = b[1] * a[2]
RatMin(a, b) == IF RatLess(b, a) THEN b ELSE a

Take(seq, n) == IF Len(seq) <= n THEN seq ELSE SubSeq(seq, 1, n)

\* seq[-n:]
KeepLast(seq, n) ==
    IF Len(seq) <= n THEN seq ELSE SubSeq(seq, Len(seq) - n + 1, Len(seq))

\* an f-string prints None for a null or absent value
Format(v) == IF v.kind = "str" THEN v.val ELSE "None"

\* line 277 and line 352
pattern_key(action_type, screen) == Format(action_type) \o "_" \o Format(screen)

\* str.lower() on the screen names of the model
Lower(s) ==
    IF s = "SalesOrder" THEN "salesorder"
    ELSE IF s = "PurchaseOrder" THEN "purchaseorder"
    ELSE s

\* lines 404 and 409: .get("screen", "").lower() raises AttributeError on null
LowerRaises(screen) == screen.kind = "null"
LowerScreen(screen) == IF screen.kind = "str" THEN Lower(screen.val) ELSE ""

\* line 405 and 410: .get("type", "")
TypeOrEmpty(action_type) == IF action_type.kind = "missing" THEN Str("") ELSE action_type

\* lines 36-41: [:100] of a business_suggestion that is null raises TypeError
ConstructorRaises(ctx) == ctx.business_suggestion = NoneVal

\* lines 18-32 and 43-55
LearningEntry(id, t, ctx, user_action, feedback_reason) ==
    [id |-> id,
     timestamp |-> t,
     suggestion_context |-> ctx,
     user_action |-> user_action,
     feedback_reason |-> feedback_reason,
     pattern_features |-> [action_type |-> ctx.original_action.type,
                           screen |-> ctx.original_action.screen]]

EntryKey(entry) ==
    pattern_key(entry.pattern_features.action_type, entry.pattern_features.screen)

\* lines 280-290
NewPattern(t) ==
    [total_suggestions |-> 0,
     accepted |-> 0,
     rejected |-> 0,
     ignored |-> 0,
     success_rate |-> Rat(0, 1),
     common_rejection_reasons |-> <<>>,
     successful_suggestions |-> <<>>,
     failed_suggestions |-> <<>>,
     last_updated |-> t]

\* line 294: pattern[entry.user_action] += 1 raises KeyError for a key the
\* dictionary does not have and TypeError for a key whose value is no number
BumpRaises(user_action) == user_action \notin NumericKeys

Bump(p, user_action) ==
    CASE user_action = "accepted" -> [p EXCEPT !.accepted = @ + 1]
      [] user_action = "rejected" -> [p EXCEPT !.rejected = @ + 1]
      [] user_action = "ignored" -> [p EXCEPT !.ignored = @ + 1]
      [] user_action = "total_suggestions" -> [p EXCEPT !.total_suggestions = @ + 1]
      [] user_action = "success_rate" -> [p EXCEPT !.success_rate = Rat(@[1] + @[2], @[2])]
      [] OTHER -> p

\* line 295
SuccessRate(p) == Rat(p.accepted, p.total_suggestions)

\* mutant: the count of a reason is set to 1 each time
AddReason_CountOne(reasons, r) ==
    IF \E i \in 1..Len(reasons) : reasons[i].reason = r
    THEN [i \in 1..Len(reasons) |->
            IF reasons[i].reason = r
            THEN [reasons[i] EXCEPT !.count = 1] ELSE reasons[i]]
    ELSE Append(reasons, [reason |-> r, count |-> 1])

\* lines 299-301: the histogram is a dictionary, which keeps insertion order
AddReason(reasons, r) ==
    IF \E i \in 1..Len(reasons) : reasons[i].reason = r
    THEN [i \in 1..Len(reasons) |->
            IF reasons[i].reason = r
            THEN [reasons[i] EXCEPT !.count = @ + 1] ELSE reasons[i]]
    ELSE Append(reasons, [reason |-> r, count |-> 1])

\* a non-empty string is true
Truthy(feedback_reason) == feedback_reason # NoneVal /\ feedback_reason # Some("")

\* lines 304-308 and 315
SuggestionSummary(entry) ==
    [business_suggestion |-> Take(entry.suggestion_context.business_suggestion[1], SummaryBlocks),
     suggested_action |-> entry.suggestion_context.suggested_action,
     timestamp |-> entry.timestamp,
     reason |-> IF entry.user_action = "rejected" THEN entry.feedback_reason ELSE NoneVal]

\* a rolling list that drops the newest summary when it is full
RollingAppend_KeepOldest(list, summary) == Take(Append(list, summary), RollingSize)

\* lines 311-313 and 316-318
RollingAppend(list, summary) == KeepLast(Append(list, summary), RollingSize)

\* line 301: a reason that is a JSON array cannot be a dictionary key, and
\* the assignment raises TypeError
ReasonRaises(entry) ==
    /\ entry.user_action = "rejected"
    /\ Truthy(entry.feedback_reason)
    /\ Len(entry.feedback_reason) > 1

\* lines 292-318: the pattern after the update, when line 294 does not
\* raise; when line 301 raises, the counters and the rate are updated and the
\* reasons and the rolling lists are not
UpdatedPattern(p, entry, t) ==
    LET p1 == [p EXCEPT !.total_suggestions = @ + 1]
        p2 == Bump(p1, entry.user_action)
        p3 == [p2 EXCEPT !.success_rate = SuccessRate(p2), !.last_updated = t]
        p4 == IF entry.user_action = "rejected" /\ Truthy(entry.feedback_reason)
              THEN [p3 EXCEPT !.common_rejection_reasons =
                                    AddReason(@, entry.feedback_reason[1])]
              ELSE p3
    IN  IF ReasonRaises(entry) THEN p3
        ELSE IF entry.user_action = "accepted"
        THEN [p4 EXCEPT !.successful_suggestions =
                            RollingAppend(@, SuggestionSummary(entry))]
        ELSE IF entry.user_action = "rejected"
        THEN [p4 EXCEPT !.failed_suggestions =
                            RollingAppend(@, SuggestionSummary(entry))]
        ELSE p4

\* lines 275-318: the pattern table after _update_patterns(entry); when line
\* 294 raises, the pattern was created and total_suggestions incremented
_update_patterns(pats, entry, t) ==
    LET key == EntryKey(entry)
        p == IF key \in DOMAIN pats THEN pats[key] ELSE NewPattern(t)
        q == IF BumpRaises(entry.user_action)
             THEN [p EXCEPT !.total_suggestions = @ + 1]
             ELSE UpdatedPattern(p, entry, t)
    IN  [k \in DOMAIN pats \cup {key} |-> IF k = key THEN q ELSE pats[k]]

\* _update_patterns(entry) raises
UpdateRaises(entry) == BumpRaises(entry.user_action) \/ ReasonRaises(entry)

\* What the file system does to the two writes of _save_data: both complete,
\* or an open(..., 'w') fails, or a json.dump breaks off (disk full) and
\* leaves the file cut short.  The second file is not reached after a failure
\* of the first.
DiskOutcomes ==
    {"written", "ledger_open_fails", "ledger_write_breaks",
     "patterns_open_fails", "patterns_write_breaks"}

\* lines 135-147: the two files after _save_data; every exception is caught
\* and printed, and the caller is not told
_save_data(disk) ==
    /\ learning_file' = CASE disk = "ledger_open_fails" -> learning_file
                          [] disk = "ledger_write_breaks" -> <<>>
                          [] OTHER -> entries'
    /\ patterns_file' = CASE disk \in {"ledger_open_fails", "ledger_write_breaks",
                                       "patterns_open_fails"} -> patterns_file
                          [] disk = "patterns_write_breaks" -> EmptyMap
                          [] OTHER -> patterns'
    /\ torn' = CASE disk = "ledger_open_fails" -> torn
                 [] disk = "ledger_write_breaks" -> torn \cup {"learning_file"}
                 [] disk = "patterns_open_fails" -> torn \ {"learning_file"}
                 [] disk = "patterns_write_breaks" ->
                        (torn \ {"learning_file"}) \cup {"patterns_file"}
                 [] OTHER -> {}

\* mutant: the new entry is put in front of the ledger
AppendEntry_InFront(ents, entry) == <<entry>> \o ents

\* line 256: self.entries.append(entry)
AppendEntry(ents, entry) == Append(ents, entry)

\* lines 246-273.  The call returns the entry id, or None when the entry
\* cannot be built (nothing is changed) or when _update_patterns raises (the
\* entry is in the ledger, the pattern is half updated, nothing is saved).
\* The uuid of the entry is the number of the call.
record_feedback(ctx, user_action, feedback_reason, disk, maxlen) ==
    /\ issued < maxlen
    /\ LET id == issued + 1
           entry == LearningEntry(id, now, ctx, user_action, feedback_reason)
       IN  /\ issued' = id
           /\ now' = now + 1
           /\ IF ConstructorRaises(ctx)
              THEN /\ ret' = [op |-> "record_feedback", ok |-> FALSE, id |-> 0,
                              user_action |-> user_action]
                   /\ UNCHANGED learnVars
              ELSE /\ entries' = AppendEntry(entries, entry)
                   /\ patterns' = _update_patterns(patterns, entry, now)
                   /\ IF UpdateRaises(entry)
                      THEN /\ ret' = [op |-> "record_feedback", ok |-> FALSE, id |-> 0,
                                      user_action |-> user_action]
                           /\ UNCHANGED <<learning_file, patterns_file, torn>>
                      ELSE /\ ret' = [op |-> "record_feedback", ok |-> TRUE, id |-> id,
                                      user_action |-> user_action]
                           /\ _save_data(disk)
    /\ UNCHANGED <<ticks, pending_actions, raceVars>>

\* lines 435-446: the Jaccard overlap of the two screen sets exceeds 0.3
_contexts_similar(context1, context2) ==
    LET s1 == context1.most_common_screens
        s2 == context2.most_common_screens
    IN  IF s1 # {} /\ s2 # {}
        THEN 10 * Cardinality(s1 \cap s2) > 3 * Cardinality(s1 \cup s2)
        ELSE FALSE

\* lines 413-422, in tenths: 0.5 for the screen, 0.3 for the type, 0.2 for
\* the business context
ScreenScore == 5
TypeScore == 3
ContextScore == 2
SimilarThreshold == 5

SimilarityScore(entry, current_action, business_context) ==
    LET entry_action == entry.suggestion_context.original_action
    IN  (IF LowerScreen(entry_action.screen) = LowerScreen(current_action.screen)
         THEN ScreenScore ELSE 0)
      + (IF TypeOrEmpty(entry_action.type) = TypeOrEmpty(current_action.type)
         THEN TypeScore ELSE 0)
      + (IF _contexts_similar(business_context, entry.suggestion_context.business_context)
         THEN ContextScore ELSE 0)

\* lines 425-431
SimilarRecord(entry, score) ==
    [action |-> entry.user_action,
     similarity_score |-> score,
     business_suggestion |-> Take(entry.suggestion_context.business_suggestion[1], ExcerptBlocks),
     feedback_reason |-> entry.feedback_reason,
     timestamp |-> entry.timestamp]

\* mutant: the records are not sorted
SortedByScore_LedgerOrder(seq, score) == seq

\* sorted(..., reverse=True) is stable: equal scores keep their order
RECURSIVE SortedByScore(_, _)
SortedByScore(seq, score) ==
    IF score < 0 THEN <<>>
    ELSE SelectSeq(seq, LAMBDA e : e.similarity_score = score)
            \o SortedByScore(seq, score - 1)

\* lines 404 and 407-409: the scan raises AttributeError
FindSimilarRaises(ents, current_action) ==
    \/ LowerRaises(current_action.screen)
    \/ \E i \in 1..Len(KeepLast(ents, SimilarWindow)) :
          LowerRaises(KeepLast(ents, SimilarWindow)[i].suggestion_context.original_action.screen)

\* lines 398-433
_find_similar_contexts(ents, current_action, business_context) ==
    LET window == KeepLast(ents, SimilarWindow)
        scored == [i \in 1..Len(window) |->
                     SimilarRecord(window[i],
                         SimilarityScore(window[i], current_action, business_context))]
        similar == SelectSeq(scored, LAMBDA e : e.similarity_score >= SimilarThreshold)
    IN  Take(SortedByScore(similar, ScreenScore + TypeScore + ContextScore), TopSimilar)

\* lines 376-381: the reasons with the highest counts first, ties in
\* insertion order
RECURSIVE SortedByCount(_, _)
SortedByCount(reasons, count) ==
    IF count < 1 THEN <<>>
    ELSE SelectSeq(reasons, LAMBDA r : r.count = count)
            \o SortedByCount(reasons, count - 1)

MaxCount(reasons) ==
    IF reasons = <<>> THEN 0
    ELSE CHOOSE c \in {reasons[i].count : i \in 1..Len(reasons)} :
            \A i \in 1..Len(reasons) : reasons[i].count <= c

AvoidPatterns(p) ==
    LET top == Take(SortedByCount(p.common_rejection_reasons,
                                  MaxCount(p.common_rejection_reasons)), TopRejections)
    IN  [i \in 1..Len(top) |-> top[i].reason]

\* lines 384-386
PreferredPatterns(p) ==
    LET last == KeepLast(p.successful_suggestions, TopPreferred)
    IN  [i \in 1..Len(last) |-> last[i].business_suggestion]

\* lines 354-362
DefaultGuidance ==
    [should_suggest |-> TRUE,
     confidence_score |-> Rat(1, 2),
     suggested_approach |-> "standard",
     avoid_patterns |-> <<>>,
     preferred_patterns |-> <<>>,
     historical_success_rate |-> Rat(0, 1),
     similar_contexts |-> <<>>]

\* line 396: what the except branch returns
FallbackGuidance == [should_suggest |-> TRUE, confidence_score |-> Rat(1, 2)]

\* line 371
LowSuccess(p) == RatLess(p.success_rate, Rat(3, 10))

\* lines 365-386
PatternGuidance(p) ==
    [DefaultGuidance EXCEPT
        !.historical_success_rate = p.success_rate,
        !.confidence_score = RatMin(Rat(9, 10), p.success_rate),
        !.should_suggest = ~LowSuccess(p),
        !.suggested_approach = IF LowSuccess(p) THEN "cautious" ELSE "standard",
        !.avoid_patterns = AvoidPatterns(p),
        !.preferred_patterns = PreferredPatterns(p)]

\* lines 349-396
Guidance(pats, ents, current_action, business_context) ==
    LET key == pattern_key(current_action.type, current_action.screen)
        g == IF key \in DOMAIN pats THEN PatternGuidance(pats[key]) ELSE DefaultGuidance
    IN  IF FindSimilarRaises(ents, current_action)
        THEN FallbackGuidance
        ELSE [g EXCEPT !.similar_contexts =
                         _find_similar_contexts(ents, current_action, business_context)]

get_suggestion_guidance(current_action, business_context) ==
    /\ ret' = [op |-> "get_suggestion_guidance",
               current_action |-> current_action,
               business_context |-> business_context,
               guidance |-> Guidance(patterns, entries, current_action, business_context)]
    /\ UNCHANGED <<now, ticks, pending_actions, issued, raceVars, learnVars>>

\* the requests of the model
SalesOrder == [type |-> Str("open_screen"), screen |-> Str("SalesOrder")]
PurchaseOrder == [type |-> Str("open_screen"), screen |-> Str("PurchaseOrder")]
NullScreen == [type |-> Str("open_screen"), screen |-> Null]
NoContext == [most_common_screens |-> {}]

Context(original_action, business_suggestion) ==
    [original_action |-> original_action,
     business_suggestion |-> business_suggestion,
     suggested_action |-> "PUT /SalesOrder",
     business_context |-> NoContext]

ShortText == Some(<<"Add related items?">>)

\* a feedback_reason that is a JSON array of two strings
ArrayReason == <<"wrong vendor", "too slow">>
LongText == Some(<<"block1", "block2", "block3">>)

Feedback(ctx, user_action, feedback_reason) ==
    [ctx |-> ctx, user_action |-> user_action, feedback_reason |-> feedback_reason]

FeedbackInputs ==
    { Feedback(Context(SalesOrder, ShortText), "accepted", NoneVal),
      Feedback(Context(SalesOrder, LongText), "rejected", Some("wrong vendor")),
      Feedback(Context(SalesOrder, ShortText), "rejected", Some("too slow")),
      Feedback(Context(SalesOrder, ShortText), "rejected", ArrayReason),
      Feedback(Context(SalesOrder, ShortText), "ignored", NoneVal),
      Feedback(Context(SalesOrder, ShortText), "dismissed", NoneVal),
      Feedback(Context(SalesOrder, ShortText), "total_suggestions", NoneVal),
      Feedback(Context(PurchaseOrder, ShortText), "accepted", NoneVal),
      Feedback(Context(NullScreen, ShortText), "ignored", NoneVal),
      Feedback(Context(SalesOrder, NoneVal), "accepted", NoneVal) }

CurrentActions == {SalesOrder, PurchaseOrder, NullScreen}

RollingInputs ==
    { Feedback(Context(SalesOrder, ShortText), "accepted", NoneVal),
      Feedback(Context(SalesOrder, LongText), "rejected", Some("wrong vendor")),
      Feedback(Context(SalesOrder, ShortText), "rejected", ArrayReason) }

\* LearningDatabase.__init__ with no files in the data directory
InitLearnSpec ==
    /\ now = 0
    /\ ticks = 0
    /\ pending_actions = EmptyMap
    /\ issued = 0
    /\ ret = NoCall
    /\ InitRace
    /\ InitLearn

NextLearn ==
    \/ \E f \in FeedbackInputs :
          record_feedback(f.ctx, f.user_action, f.feedback_reason, "written", MaxEntries)
    \/ \E a \in CurrentActions : get_suggestion_guidance(a, NoContext)

SpecLearn == InitLearnSpec /\ [][NextLearn]_vars

NextRolling ==
    \E f \in RollingInputs :
        record_feedback(f.ctx, f.user_action, f.feedback_reason, "written", MaxRolling)

SpecRolling == InitLearnSpec /\ [][NextRolling]_vars

\* feedback recorded on a disk that can fail
NextDisk ==
    \E f \in RollingInputs, disk \in DiskOutcomes :
        record_feedback(f.ctx, f.user_action, f.feedback_reason, disk, MaxDisk)

SpecDisk == InitLearnSpec /\ [][NextDisk]_vars

(***************************************************************************)
(* Reset and statistics                                                    *)
(***************************************************************************)
MaxReset == 3
MaxTrend == 11

TrendMinimum == 10
TrendThreshold == Rat(1, 10)
RecentDays == 30

\* routes.py lines 845-847 and the answer of lines 849-852: the ledger and the
\* pattern table are replaced by empty ones and saved; _save_data reports no
\* failure, so the answer is always success
reset_learning_data(disk) ==
    /\ entries' = <<>>
    /\ patterns' = EmptyMap
    /\ _save_data(disk)
    /\ ret' = [op |-> "reset_learning_data", ok |-> TRUE, status |-> "success"]
    /\ UNCHANGED <<now, ticks, pending_actions, issued, raceVars>>

\* len([e for e in ents if e.user_action == user_action])
CountAction(ents, user_action) ==
    Cardinality({i \in DOMAIN ents : ents[i].user_action = user_action})

\* a / b - c / d as a quotient
RatMinus(a, b) == Rat(a[1] * b[2] - b[1] * a[2], a[2] * b[2])

\* lines 592-612: the acceptance rate of the first len // 2 entries against
\* that of the others; a message below ten entries
_get_learning_trends(ents) ==
    IF Len(ents) < TrendMinimum
    THEN [message |-> "Not enough data for trend analysis"]
    ELSE LET mid_point == Len(ents) \div 2
             early_entries == SubSeq(ents, 1, mid_point)
             recent_entries == SubSeq(ents, mid_point + 1, Len(ents))
             early_acceptance == Rat(CountAction(early_entries, "accepted"),
                                     Len(early_entries))
             recent_acceptance == Rat(CountAction(recent_entries, "accepted"),
                                      Len(recent_entries))
             improvement == RatMinus(recent_acceptance, early_acceptance)
         IN  [early_acceptance_rate |-> early_acceptance,
              recent_acceptance_rate |-> recent_acceptance,
              improvement |-> improvement,
              trend |-> IF RatLess(TrendThreshold, improvement) THEN "improving"
                        ELSE IF RatLess(improvement, Rat(0 - 1, 10)) THEN "declining"
                        ELSE "stable"]

\* lines 565-567: a rejection reason that is a JSON array cannot be a
\* dictionary key (TypeError: unhashable type)
StatisticsRaises(ents) ==
    \E i \in DOMAIN ents :
        /\ ents[i].user_action = "rejected"
        /\ Len(ents[i].feedback_reason) > 1

\* lines 536-561.  Of the two top-5 lists only the exception of line 567 is
\* kept; t is the time of the call, in minutes.
LearningStatistics(ents, t) ==
    IF Len(ents) = 0
    THEN [message |-> "No learning data available yet"]
    ELSE LET total_entries == Len(ents)
             recent_date == t - RecentDays * 24 * 60
             recent == {i \in DOMAIN ents : ents[i].timestamp >= recent_date}
             recent_accepted ==
                 Cardinality({i \in recent : ents[i].user_action = "accepted"})
         IN  [total_suggestions_tracked |-> total_entries,
              overall_acceptance_rate |-> Rat(CountAction(ents, "accepted"), total_entries),
              overall_rejection_rate |-> Rat(CountAction(ents, "rejected"), total_entries),
              ignored_rate |-> Rat(CountAction(ents, "ignored"), total_entries),
              recent_performance |->
                  [last_30_days_total |-> Cardinality(recent),
                   last_30_days_accepted |-> recent_accepted,
                   last_30_days_acceptance_rate |->
                       IF recent # {} THEN Rat(recent_accepted, Cardinality(recent))
                       ELSE Rat(0, 1)],
              learning_trends |-> _get_learning_trends(ents)]

\* routes.py lines 715-734: GET /learning/statistics
get_learning_statistics ==
    /\ ret' = IF StatisticsRaises(entries)
              THEN [op |-> "get_learning_statistics", ok |-> FALSE, status |-> "error",
                    ledger |-> entries]
              ELSE [op |-> "get_learning_statistics", ok |-> TRUE, status |-> "success",
                    ledger |-> entries,
                    statistics |-> LearningStatistics(entries, now)]
    /\ UNCHANGED <<now, ticks, pending_actions, issued, raceVars, learnVars>>

\* Requests for the similarity scan: business contexts with screen sets, a
\* screen written in lower case, a second action type.  The first HeadCalls
\* requests choose among all of them and the later ones repeat one, so that
\* the ledger grows past the window of 50 entries.
MaxSimilar == 52
HeadCalls == 2

Navigate == [type |-> Str("navigate"), screen |-> Str("salesorder")]
ScreensBoth == [most_common_screens |-> {"SalesOrder", "PurchaseOrder"}]
ScreensPurchase == [most_common_screens |-> {"PurchaseOrder"}]
ScreensMany == [most_common_screens |-> {"PurchaseOrder", "Customers", "Invoices"}]

ContextWith(original_action, business_context) ==
    [Context(original_action, ShortText) EXCEPT !.business_context = business_context]

FillerInputs ==
    { Feedback(ContextWith(PurchaseOrder, ScreensPurchase), "ignored", NoneVal) }

SimilarInputs ==
    FillerInputs \cup
    { Feedback(ContextWith(SalesOrder, ScreensBoth), "accepted", NoneVal),
      Feedback(ContextWith(Navigate, ScreensMany), "rejected", Some("too slow")) }

SimilarActions == {SalesOrder, PurchaseOrder}
SimilarContexts == {ScreensBoth, ScreensPurchase, NoContext}

NextSimilar ==
    \/ \E f \in (IF issued < HeadCalls THEN SimilarInputs ELSE FillerInputs) :
          record_feedback(f.ctx, f.user_action, f.feedback_reason, "written", MaxSimilar)
    \/ \E a \in SimilarActions, c \in SimilarContexts : get_suggestion_guidance(a, c)

SpecSimilar == InitLearnSpec /\ [][NextSimilar]_vars

\* lines 102-133: the process starts again and LearningDatabase.__init__
\* loads the two files; a file that was cut short is no JSON, json.load
\* raises, and the except branch leaves both structures empty.  The pending
\* actions, which are kept in memory only, are gone.
restart ==
    /\ IF torn # {}
       THEN entries' = <<>> /\ patterns' = EmptyMap
       ELSE entries' = learning_file /\ patterns' = patterns_file
    /\ pending_actions' = EmptyMap
    /\ ret' = [op |-> "restart", ok |-> TRUE]
    /\ UNCHANGED <<now, ticks, issued, raceVars, learning_file, patterns_file, torn>>

\* feedback, resets and restarts on a disk that can fail
MaxRestart == 3

RestartInputs ==
    { Feedback(Context(SalesOrder, ShortText), "accepted", NoneVal),
      Feedback(Context(PurchaseOrder, ShortText), "rejected", Some("too slow")),
      Feedback(Context(SalesOrder, ShortText), "dismissed", NoneVal),
      Feedback(Context(SalesOrder, ShortText), "total_suggestions", NoneVal) }

NextRestart ==
    \/ \E f \in RestartInputs, disk \in DiskOutcomes :
          record_feedback(f.ctx, f.user_action, f.feedback_reason, disk, MaxRestart)
    \/ \E disk \in DiskOutcomes : reset_learning_data(disk)
    \/ restart

SpecRestart == InitLearnSpec /\ [][NextRestart]_vars

\* feedback with and without reasons, for the rejection histogram
MaxHistogram == 4

HistogramInputs ==
    { Feedback(Context(SalesOrder, ShortText), "accepted", NoneVal),
      Feedback(Context(SalesOrder, ShortText), "accepted", Some("wrong vendor")),
      Feedback(Context(SalesOrder, ShortText), "ignored", Some("too slow")),
      Feedback(Context(SalesOrder, ShortText), "rejected", Some("wrong vendor")),
      Feedback(Context(SalesOrder, ShortText), "rejected", Some("too slow")),
      Feedback(Context(SalesOrder, ShortText), "rejected", Some("")),
      Feedback(Context(SalesOrder, ShortText), "rejected", NoneVal),
      Feedback(Context(SalesOrder, ShortText), "rejected", ArrayReason) }

NextHistogram ==
    \E f \in HistogramInputs :
        record_feedback(f.ctx, f.user_action, f.feedback_reason, "written", MaxHistogram)

SpecHistogram == InitLearnSpec /\ [][NextHistogram]_vars

\* two requests whose (type, screen) pairs differ and whose f-string of line
\* 277 is the same text, open_screen_SalesOrder
OpenScreenSales == [type |-> Str("open"), screen |-> Str("screen_SalesOrder")]

MaxKeys == 4

KeyActions == {SalesOrder, PurchaseOrder, OpenScreenSales}

KeyInputs ==
    { Feedback(Context(SalesOrder, ShortText), "accepted", NoneVal),
      Feedback(Context(SalesOrder, ShortText), "rejected", Some("too slow")),
      Feedback(Context(OpenScreenSales, ShortText), "rejected", Some("wrong vendor")),
      Feedback(Context(OpenScreenSales, ShortText), "accepted", NoneVal),
      Feedback(Context(PurchaseOrder, ShortText), "accepted", NoneVal) }

NextKeys ==
    \/ \E f \in KeyInputs :
          record_feedback(f.ctx, f.user_action, f.feedback_reason, "written", MaxKeys)
    \/ \E a \in KeyActions : get_suggestion_guidance(a, NoContext)

SpecKeys == InitLearnSpec /\ [][NextKeys]_vars

\* feedback, guidance, statistics and resets on a disk that can fail
ResetInputs ==
    RollingInputs \cup {Feedback(Context(SalesOrder, NoneVal), "accepted", NoneVal)}

NextReset ==
    \/ \E f \in ResetInputs, disk \in DiskOutcomes :
          record_feedback(f.ctx, f.user_action, f.feedback_reason, disk, MaxReset)
    \/ \E disk \in DiskOutcomes : reset_learning_data(disk)
    \/ get_learning_statistics
    \/ \E a \in CurrentActions : get_suggestion_guidance(a, NoContext)

SpecReset == InitLearnSpec /\ [][NextReset]_vars

\* a ledger long enough for the trend analysis
TrendInputs ==
    { Feedback(Context(SalesOrder, ShortText), "accepted", NoneVal),
      Feedback(Context(SalesOrder, ShortText), "ignored", NoneVal) }

NextTrend ==
    \/ \E f \in TrendInputs :
          record_feedback(f.ctx, f.user_action, f.feedback_reason, "written", MaxTrend)
    \/ get_learning_statistics

SpecTrend == InitLearnSpec /\ [][NextTrend]_vars

(***************************************************************************)
(* Concurrent requests.  The Flask server runs each request in a thread of *)
(* its own and PendingActionManager takes no lock, so the lines of two     *)
(* calls on the same action interleave.  Each thread runs one              *)
(* confirm_action or reject_action on the action RaceId, line by line.     *)
(***************************************************************************)
RaceId == 1
RaceOps == {"confirm_action", "reject_action"}

Goto(t, label) == pc' = [pc EXCEPT ![t] = label]
Return(t, value) ==
    /\ pc' = [pc EXCEPT ![t] = "done"]
    /\ thread_ret' = [thread_ret EXCEPT ![t] = value]

\* a request arrives: routes.py 418 or 582 calls the manager
StartCall(t, op) ==
    /\ pc[t] = "idle"
    /\ thread_op' = [thread_op EXCEPT ![t] = op]
    /\ Goto(t, IF op = "confirm_action" THEN "line40" ELSE "line57")
    /\ UNCHANGED <<pendingVars, thread_ret, stamp_writes, frame, learnVars>>

\* lines 40-42
ConfirmLine40(t) ==
    /\ pc[t] = "line40"
    /\ IF RaceId \in DOMAIN pending_actions
       THEN Goto(t, "line44") /\ UNCHANGED thread_ret
       ELSE Return(t, NoneVal)
    /\ UNCHANGED <<pendingVars, thread_op, stamp_writes, frame, learnVars>>

\* lines 44-45
ConfirmLine44(t) ==
    /\ pc[t] = "line44"
    /\ IF pending_actions[RaceId].status # "pending"
       THEN Return(t, NoneVal)
       ELSE Goto(t, "line47") /\ UNCHANGED thread_ret
    /\ UNCHANGED <<pendingVars, thread_op, stamp_writes, frame, learnVars>>

\* line 47
ConfirmLine47(t) ==
    /\ pc[t] = "line47"
    /\ Goto(t, IF IsExpired(pending_actions[RaceId], now) THEN "line48" ELSE "line51")
    /\ UNCHANGED <<pendingVars, thread_op, thread_ret, stamp_writes, frame, learnVars>>

\* lines 48-49
ConfirmLine48(t) ==
    /\ pc[t] = "line48"
    /\ pending_actions' = [pending_actions EXCEPT ![RaceId].status = "expired"]
    /\ Return(t, NoneVal)
    /\ UNCHANGED <<now, ticks, issued, ret, thread_op, stamp_writes, frame, learnVars>>

\* line 51
ConfirmLine51(t) ==
    /\ pc[t] = "line51"
    /\ pending_actions' = [pending_actions EXCEPT ![RaceId].status = "confirmed"]
    /\ Goto(t, "line52")
    /\ UNCHANGED <<now, ticks, issued, ret, thread_op, thread_ret, stamp_writes, frame, learnVars>>

\* lines 52-53
ConfirmLine52(t) ==
    /\ pc[t] = "line52"
    /\ pending_actions' = [pending_actions EXCEPT ![RaceId].confirmed_at = Some(now)]
    /\ stamp_writes' = stamp_writes + 1
    /\ Return(t, Some(RaceId))
    /\ UNCHANGED <<now, ticks, issued, ret, thread_op, frame, learnVars>>

\* lines 57-58, and line 62 when the test fails
RejectLine57(t) ==
    /\ pc[t] = "line57"
    /\ IF RejectSucceeds(pending_actions, RaceId)
       THEN Goto(t, "line59") /\ UNCHANGED thread_ret
       ELSE Return(t, NoneVal)
    /\ UNCHANGED <<pendingVars, thread_op, stamp_writes, frame, learnVars>>

\* line 59
RejectLine59(t) ==
    /\ pc[t] = "line59"
    /\ pending_actions' = [pending_actions EXCEPT ![RaceId].status = "rejected"]
    /\ Goto(t, "line60")
    /\ UNCHANGED <<now, ticks, issued, ret, thread_op, thread_ret, stamp_writes, frame, learnVars>>

\* lines 60-61
RejectLine60(t) ==
    /\ pc[t] = "line60"
    /\ pending_actions' = [pending_actions EXCEPT ![RaceId].rejected_at = Some(now)]
    /\ Return(t, Some(RaceId))
    /\ UNCHANGED <<now, ticks, issued, ret, thread_op, stamp_writes, frame, learnVars>>

\* time passes while the requests run
RaceTick ==
    /\ ticks < MaxTicks
    /\ \E d \in TickSteps : now' = now + d
    /\ ticks' = ticks + 1
    /\ UNCHANGED <<pending_actions, issued, ret, raceVars, learnVars>>

\* the store holds one pending action, created by create_pending_action("s1")
InitRaceSpec ==
    /\ now = 0
    /\ ticks = 0
    /\ pending_actions = [id \in {RaceId} |->
                            NewPendingData(RaceId, "s1", 0, expiry_minutes)]
    /\ issued = 1
    /\ ret = Call("create_pending_action", RaceId, TRUE)
    /\ InitRace
    /\ InitLearn

NextRace ==
    \/ \E t \in Threads, op \in RaceOps : StartCall(t, op)
    \/ \E t \in Threads : ConfirmLine40(t)
    \/ \E t \in Threads : ConfirmLine44(t)
    \/ \E t \in Threads : ConfirmLine47(t)
    \/ \E t \in Threads : ConfirmLine48(t)
    \/ \E t \in Threads : ConfirmLine51(t)
    \/ \E t \in Threads : ConfirmLine52(t)
    \/ \E t \in Threads : RejectLine57(t)
    \/ \E t \in Threads : RejectLine59(t)
    \/ \E t \in Threads : RejectLine60(t)
    \/ RaceTick

SpecRace == InitRaceSpec /\ [][NextRace]_vars

(***************************************************************************)
(* The confirm and reject request handlers of routes.py, each in a thread  *)
(* of its own, on the proposal RaceId.  A handler calls confirm_action or  *)
(* reject_action (the lines above), and after a call that returned the     *)
(* action it goes on: the confirm handler tries the ERP request, marks the *)
(* proposal executed and records an accepted entry; the reject handler     *)
(* records a rejected entry.  The learning service is initialized: a       *)
(* proposal exists only after copilot_service.initialize (routes.py 270).  *)
(***************************************************************************)
\* how the execution in the confirm handler ends: get_authenticated_session
\* returns None (428-447), the ERP request completes (449-535), or an
\* exception is raised on the way (540-566)
ExecutionPaths == {"auth_failed", "completed", "exception"}

\* routes.py 571: body.get("reason", "User rejected"), not validated: the
\* default, a string, JSON null, a JSON array
RouteReasons == {Some("User rejected"), Some("too slow"), NoneVal, ArrayReason}

\* routes.py 436-441, 509-514, 549-554 and 591-596: the suggestion_context the
\* handlers build from the stored proposal, created for an open_screen action
\* on a screen that plan_historical_get knows
RouteContext == Context(PurchaseOrder, ShortText)

\* mutant: the proposal is left confirmed when the authentication fails
HandlerMarkStore_NotOnAuthFailure(store, id, t, path) ==
    IF path = "auth_failed" THEN store ELSE MarkExecutedStore(store, id, t, path)

\* routes.py 433, 503 and 546: every path calls mark_executed
HandlerMarkStore(store, id, t, path) == MarkExecutedStore(store, id, t, path)

\* routes.py 419-423 and 583-587: 404 when the manager returned None
HandlerAfterCall(t) ==
    /\ pc[t] = "done"
    /\ Goto(t, IF thread_ret[t] = NoneVal THEN "responded"
               ELSE IF thread_op[t] = "confirm_action" THEN "execute"
               ELSE "record")
    /\ UNCHANGED <<pendingVars, thread_op, thread_ret, stamp_writes, frame, learnVars>>

\* routes.py 426-433, 449-503 and 540-546: the execution, then mark_executed
HandlerExecute(t, path) ==
    /\ pc[t] = "execute"
    /\ pending_actions' = HandlerMarkStore(pending_actions, RaceId, now, path)
    /\ Goto(t, "record")
    /\ UNCHANGED <<now, ticks, issued, ret, thread_op, thread_ret, stamp_writes,
                   frame, learnVars>>

\* routes.py 435-445, 506-517, 549-560 and 590-601: record_user_feedback,
\* which is LearningDatabase.record_feedback (lines 246-273), then the response
HandlerRecord(t, reason) ==
    /\ pc[t] = "record"
    /\ LET id == issued + 1
           entry == IF thread_op[t] = "confirm_action"
                    THEN LearningEntry(id, now, RouteContext, "accepted", NoneVal)
                    ELSE LearningEntry(id, now, RouteContext, "rejected", reason)
       IN  /\ issued' = id
           /\ entries' = AppendEntry(entries, entry)
           /\ patterns' = _update_patterns(patterns, entry, now)
           /\ IF UpdateRaises(entry)
              THEN UNCHANGED <<learning_file, patterns_file, torn>>
              ELSE _save_data("written")
    /\ Goto(t, "responded")
    /\ UNCHANGED <<now, ticks, pending_actions, ret, thread_op, thread_ret,
                   stamp_writes, frame>>

NextRoutes ==
    \/ NextRace
    \/ \E t \in Threads : HandlerAfterCall(t)
    \/ \E t \in Threads, path \in ExecutionPaths : HandlerExecute(t, path)
    \/ \E t \in Threads, reason \in RouteReasons : HandlerRecord(t, reason)

SpecRoutes == InitRaceSpec /\ [][NextRoutes]_vars

(***************************************************************************)
(* Concurrent requests to the learning database.  LearningDatabase takes   *)
(* no lock either.  Each thread runs one record_feedback, one reset or one *)
(* read, statement by statement; the feedback is valid and is for the      *)
(* pattern key open_screen_SalesOrder, and the disk writes.                *)
(***************************************************************************)
RaceActions == {"accepted", "ignored"}
RaceKey == pattern_key(SalesOrder.type, SalesOrder.screen)

LocalEntry(t) == frame[t].entry[1]

\* the dictionary a thread holds as pattern is taken out of self.patterns
Orphaned(f) == IF f.ref = "live" THEN [f EXCEPT !.ref = "orphan"] ELSE f

\* routes.py line 760: a feedback request arrives; lines 246-253 build the
\* entry
StartFeedback(t, user_action) ==
    /\ pc[t] = "idle"
    /\ thread_op' = [thread_op EXCEPT ![t] = "record_feedback"]
    /\ issued' = issued + 1
    /\ frame' = [frame EXCEPT ![t].entry =
                    Some(LearningEntry(issued + 1, now, Context(SalesOrder, ShortText),
                                       user_action, NoneVal))]
    /\ Goto(t, "line256")
    /\ UNCHANGED <<now, ticks, pending_actions, ret, thread_ret, stamp_writes, learnVars>>

\* line 256
FeedbackLine256(t) ==
    /\ pc[t] = "line256"
    /\ entries' = AppendEntry(entries, LocalEntry(t))
    /\ Goto(t, "line279")
    /\ UNCHANGED <<pendingVars, thread_op, thread_ret, stamp_writes, frame,
                   patterns, learning_file, patterns_file, torn>>

\* line 279
FeedbackLine279(t) ==
    /\ pc[t] = "line279"
    /\ Goto(t, IF RaceKey \in DOMAIN patterns THEN "line292" ELSE "line280")
    /\ UNCHANGED <<pendingVars, thread_op, thread_ret, stamp_writes, frame, learnVars>>

\* lines 280-290: a new dictionary is stored under the key, in place of the
\* one another thread may have stored since line 279
FeedbackLine280(t) ==
    /\ pc[t] = "line280"
    /\ patterns' = [k \in DOMAIN patterns \cup {RaceKey} |->
                      IF k = RaceKey THEN NewPattern(now) ELSE patterns[k]]
    /\ frame' = [u \in Threads |-> Orphaned(frame[u])]
    /\ Goto(t, "line292")
    /\ UNCHANGED <<pendingVars, thread_op, thread_ret, stamp_writes,
                   entries, learning_file, patterns_file, torn>>

\* line 292; a KeyError after a reset emptied the table ends the call in the
\* except branch of lines 271-273
FeedbackLine292(t) ==
    /\ pc[t] = "line292"
    /\ IF RaceKey \in DOMAIN patterns
       THEN /\ frame' = [frame EXCEPT ![t].ref = "live"]
            /\ Goto(t, "line293")
            /\ UNCHANGED thread_ret
       ELSE /\ Return(t, NoneVal)
            /\ UNCHANGED frame
    /\ UNCHANGED <<pendingVars, thread_op, stamp_writes, learnVars>>

\* a statement of _update_patterns on the dictionary the thread holds: the
\* table changes only when that dictionary is still in it
WritePattern(t, p) ==
    IF frame[t].ref = "live"
    THEN patterns' = [patterns EXCEPT ![RaceKey] = p]
    ELSE UNCHANGED patterns

\* line 293
FeedbackLine293(t) ==
    /\ pc[t] = "line293"
    /\ WritePattern(t, [patterns[RaceKey] EXCEPT !.total_suggestions = @ + 1])
    /\ Goto(t, "line294")
    /\ UNCHANGED <<pendingVars, thread_op, thread_ret, stamp_writes, frame,
                   entries, learning_file, patterns_file, torn>>

\* line 294
FeedbackLine294(t) ==
    /\ pc[t] = "line294"
    /\ WritePattern(t, Bump(patterns[RaceKey], LocalEntry(t).user_action))
    /\ Goto(t, "line295")
    /\ UNCHANGED <<pendingVars, thread_op, thread_ret, stamp_writes, frame,
                   entries, learning_file, patterns_file, torn>>

\* line 295
FeedbackLine295(t) ==
    /\ pc[t] = "line295"
    /\ WritePattern(t, [patterns[RaceKey] EXCEPT !.success_rate = SuccessRate(patterns[RaceKey])])
    /\ Goto(t, "line296")
    /\ UNCHANGED <<pendingVars, thread_op, thread_ret, stamp_writes, frame,
                   entries, learning_file, patterns_file, torn>>

\* lines 296-318, taken as one step: last_updated and the rolling list
FeedbackLine296(t) ==
    /\ pc[t] = "line296"
    /\ WritePattern(t,
          LET p == [patterns[RaceKey] EXCEPT !.last_updated = now]
          IN  IF LocalEntry(t).user_action = "accepted"
              THEN [p EXCEPT !.successful_suggestions =
                                RollingAppend(@, SuggestionSummary(LocalEntry(t)))]
              ELSE p)
    /\ Goto(t, "line262")
    /\ UNCHANGED <<pendingVars, thread_op, thread_ret, stamp_writes, frame,
                   entries, learning_file, patterns_file, torn>>

\* lines 262-269: both files are written from self.entries and
\* self.patterns as they are now, and the entry id is returned
FeedbackLine262(t) ==
    /\ pc[t] = "line262"
    /\ learning_file' = entries
    /\ patterns_file' = patterns
    /\ torn' = {}
    /\ Return(t, Some(LocalEntry(t).id))
    /\ UNCHANGED <<pendingVars, thread_op, stamp_writes, frame, entries, patterns>>

\* routes.py line 845: a reset request arrives and replaces the ledger
ResetLine845(t) ==
    /\ pc[t] = "idle"
    /\ thread_op' = [thread_op EXCEPT ![t] = "reset_learning_data"]
    /\ entries' = <<>>
    /\ Goto(t, "line846")
    /\ UNCHANGED <<pendingVars, thread_ret, stamp_writes, frame,
                   patterns, learning_file, patterns_file, torn>>

\* routes.py line 846: the table is replaced by a new, empty one
ResetLine846(t) ==
    /\ pc[t] = "line846"
    /\ patterns' = EmptyMap
    /\ frame' = [u \in Threads |-> Orphaned(frame[u])]
    /\ Goto(t, "line847")
    /\ UNCHANGED <<pendingVars, thread_op, thread_ret, stamp_writes,
                   entries, learning_file, patterns_file, torn>>

\* routes.py lines 847-852
ResetLine847(t) ==
    /\ pc[t] = "line847"
    /\ learning_file' = entries
    /\ patterns_file' = patterns
    /\ torn' = {}
    /\ Return(t, Some("success"))
    /\ UNCHANGED <<pendingVars, thread_op, stamp_writes, frame, entries, patterns>>

\* lines 364-368 and 407: a get_suggestion_guidance request reads the table
\* and the ledger as they are at this moment
GuidanceRead(t) ==
    /\ pc[t] = "idle"
    /\ thread_op' = [thread_op EXCEPT ![t] = "get_suggestion_guidance"]
    /\ Return(t, Some([ledger |-> entries, table |-> patterns]))
    /\ UNCHANGED <<pendingVars, stamp_writes, frame, learnVars>>

NextFeedbackRace ==
    \/ \E t \in Threads, a \in RaceActions : StartFeedback(t, a)
    \/ \E t \in Threads : FeedbackLine256(t)
    \/ \E t \in Threads : FeedbackLine279(t)
    \/ \E t \in Threads : FeedbackLine280(t)
    \/ \E t \in Threads : FeedbackLine292(t)
    \/ \E t \in Threads : FeedbackLine293(t)
    \/ \E t \in Threads : FeedbackLine294(t)
    \/ \E t \in Threads : FeedbackLine295(t)
    \/ \E t \in Threads : FeedbackLine296(t)
    \/ \E t \in Threads : FeedbackLine262(t)
    \/ \E t \in Threads : ResetLine845(t)
    \/ \E t \in Threads : ResetLine846(t)
    \/ \E t \in Threads : ResetLine847(t)
    \/ \E t \in Threads : GuidanceRead(t)

SpecFeedbackRace == InitLearnSpec /\ [][NextFeedbackRace]_vars

(***************************************************************************)
(* Claims about concurrent calls (SpecRace).                               *)
(***************************************************************************)
Succeeded(t) == pc[t] = "done" /\ thread_ret[t] # NoneVal

\* C2: when two confirm_action calls on the same pending action have both
\* returned and the time to live has not passed, exactly one of them got the
\* action and the other None, the status is confirmed and confirmed_at was
\* written once.
C2_ExactlyOneConfirmSucceeds ==
    ( /\ \A t \in Threads : thread_op[t] = "confirm_action" /\ pc[t] = "done"
      /\ ~IsExpired(pending_actions[RaceId], now) )
    => /\ Cardinality({t \in Threads : Succeeded(t)}) = 1
       /\ pending_actions[RaceId].status = "confirmed"
       /\ stamp_writes = 1

\* C3: with a confirm_action and a reject_action running concurrently on the
\* same pending action, the action never has both confirmed_at and
\* rejected_at, and the two calls do not both return the action.
C3_ConfirmRejectAtMostOneSucceeds ==
    /\ ~( /\ pending_actions[RaceId].confirmed_at # NoneVal
          /\ pending_actions[RaceId].rejected_at # NoneVal )
    /\ \A t, u \in Threads :
          ( /\ thread_op[t] = "confirm_action"
            /\ thread_op[u] = "reject_action" )
          => ~(Succeeded(t) /\ Succeeded(u))

(***************************************************************************)
(* Claims about the PendingActionManager, one call at a time (Spec).       *)
(* Every action of Spec sets ret, so ret' names the call a step made.      *)
(***************************************************************************)
Called(op, id) == ret'.op = op /\ ret'.id = id

\* C1: confirm_action(id) returns the action, with status confirmed and
\* confirmed_at stamped, if and only if the id is stored, its status is
\* pending and now <= expires_at; otherwise it returns None and the status
\* does not become confirmed.
C1_ConfirmIffPendingAndInTime ==
    [][\A id \in ActionIds :
        Called("confirm_action", id) =>
            /\ ret'.ok <=> /\ id \in DOMAIN pending_actions
                           /\ pending_actions[id].status = "pending"
                           /\ now <= pending_actions[id].expires_at
            /\ ret'.ok => /\ id \in DOMAIN pending_actions'
                          /\ pending_actions'[id].status = "confirmed"
                          /\ pending_actions'[id].confirmed_at = Some(now)
            /\ (~ret'.ok /\ id \in DOMAIN pending_actions') =>
                    (pending_actions'[id].status = "confirmed"
                        => pending_actions[id].status = "confirmed")
      ]_vars

\* C1 witness: a confirm made exactly at expires_at has succeeded.
C1_Witness ==
    /\ ret.op = "confirm_action" /\ ret.ok
    /\ ret.id \in DOMAIN pending_actions
    /\ now = pending_actions[ret.id].expires_at
    /\ pending_actions[ret.id].confirmed_at = Some(now)

\* C4: reject_action(id) changes the store only for a pending action, which
\* becomes rejected with rejected_at stamped; a reject of an action that was
\* rejected before returns None and leaves the action as it was.
C4_RejectOnlyFromPending ==
    [][\A id \in ActionIds :
        Called("reject_action", id) =>
            /\ IF id \in DOMAIN pending_actions /\ pending_actions[id].status = "pending"
               THEN /\ ret'.ok
                    /\ pending_actions' =
                         [pending_actions EXCEPT ![id].status = "rejected",
                                                 ![id].rejected_at = Some(now)]
               ELSE /\ ~ret'.ok
                    /\ pending_actions' = pending_actions
            /\ (id \in DOMAIN pending_actions /\ pending_actions[id].rejected_at # NoneVal)
                  => /\ ~ret'.ok
                     /\ pending_actions'[id] = pending_actions[id]
      ]_vars

\* C4 witness: a second reject, made later than the first, has failed.
C4_Witness ==
    /\ ret.op = "reject_action" /\ ~ret.ok
    /\ ret.id \in DOMAIN pending_actions
    /\ pending_actions[ret.id].status = "rejected"
    /\ pending_actions[ret.id].rejected_at # NoneVal
    /\ pending_actions[ret.id].rejected_at # Some(now)

\* C5: a confirm of a pending action made after expires_at returns None and
\* leaves the action expired; an expired action that is still stored stays
\* expired in every step but a mark_executed of it, so expired is the status
\* of the dictionary a later get_pending_action returns.
C5_ExpiredByConfirmStaysExpired ==
    [][\A id \in ActionIds :
        /\ ( /\ Called("confirm_action", id)
             /\ id \in DOMAIN pending_actions
             /\ pending_actions[id].status = "pending"
             /\ now > pending_actions[id].expires_at )
            => /\ ~ret'.ok
               /\ id \in DOMAIN pending_actions'
               /\ pending_actions'[id].status = "expired"
        /\ ( /\ id \in DOMAIN pending_actions
             /\ pending_actions[id].status = "expired"
             /\ id \in DOMAIN pending_actions'
             /\ ~Called("mark_executed", id) )
            => pending_actions'[id].status = "expired"
      ]_vars

\* C5 witness: the last call was a confirm that failed on an action whose
\* time to live had passed, and the action is expired.
C5_Witness ==
    /\ ret.op = "confirm_action" /\ ~ret.ok
    /\ ret.id \in DOMAIN pending_actions
    /\ pending_actions[ret.id].status = "expired"
    /\ now > pending_actions[ret.id].expires_at

\* what the claim C6 calls the failure of a confirm of id
ConfirmFailureKind(id) ==
    IF id \notin DOMAIN pending_actions THEN "NotFound"
    ELSE IF /\ pending_actions[id].status \in {"pending", "expired"}
            /\ now > pending_actions[id].expires_at THEN "Expired"
    ELSE IF pending_actions[id].status # "pending" THEN "AlreadyProcessed"
    ELSE "none"

\* C6: two confirms that fail for different reasons (unknown id, time to live
\* passed, already processed) give their callers different results.
C6_ConfirmFailuresDistinguishable ==
    \A a, b \in ActionIds :
        ( /\ ConfirmFailureKind(a) # "none"
          /\ ConfirmFailureKind(b) # "none"
          /\ ConfirmFailureKind(a) # ConfirmFailureKind(b) )
        => confirm_response(pending_actions, a, now) # confirm_response(pending_actions, b, now)

\* the status changes that the state machine allows
AllowedChange(old, new) ==
    \/ old = new
    \/ old = "pending" /\ new \in {"confirmed", "rejected", "expired"}
    \/ new = "executed"

\* C12: in every run, concurrent requests included, each status change of a
\* stored action is pending -> confirmed, pending -> rejected, pending ->
\* expired or (any status) -> executed.
C12_StatusOnlyMovesForward ==
    [][\A id \in DOMAIN pending_actions \cap DOMAIN pending_actions' :
          AllowedChange(pending_actions[id].status, pending_actions'[id].status)
      ]_vars

\* C13: with every call run one at a time, no stored action has both
\* confirmed_at and rejected_at set, whatever calls were made.
C13_NeverConfirmedAndRejected ==
    \A id \in DOMAIN pending_actions :
        ~( /\ pending_actions[id].confirmed_at # NoneVal
           /\ pending_actions[id].rejected_at # NoneVal )

\* C13 witness: a reject_action was tried on an action that had been
\* confirmed, and it failed.
C13_Witness ==
    /\ ret.op = "reject_action" /\ ~ret.ok
    /\ ret.id \in DOMAIN pending_actions
    /\ pending_actions[ret.id].confirmed_at # NoneVal
    /\ pending_actions[ret.id].rejected_at = NoneVal

\* C14: mark_executed(id, result) on a stored action sets status executed and
\* stores executed_at and execution_result whatever the status was; it fails
\* only for an id that is not stored, and then changes nothing.
C14_MarkExecutedFromAnyStatus ==
    [][\A id \in ActionIds :
        Called("mark_executed", id) =>
            /\ ret'.ok <=> id \in DOMAIN pending_actions
            /\ id \in DOMAIN pending_actions =>
                  /\ id \in DOMAIN pending_actions'
                  /\ pending_actions'[id].status = "executed"
                  /\ pending_actions'[id].executed_at = Some(now)
                  /\ \E r \in ExecutionResults :
                        pending_actions'[id].execution_result = Some(r)
            /\ id \notin DOMAIN pending_actions => pending_actions' = pending_actions
      ]_vars

\* C14 witness: the last call marked executed an action that had been
\* rejected.
C14_Witness ==
    /\ ret.op = "mark_executed" /\ ret.ok
    /\ pending_actions[ret.id].status = "executed"
    /\ pending_actions[ret.id].rejected_at # NoneVal

\* C15: create_pending_action always succeeds, and the action stored under
\* the returned id is pending, has the caller's session_id, original_action,
\* suggested_action and suggestion text, and expires_at = created_at + 30
\* minutes exactly.
C15_CreatedExpiresThirtyMinutesAfterCreation ==
    ret.op = "create_pending_action" =>
        /\ ret.ok
        /\ ret.id \in DOMAIN pending_actions
        /\ pending_actions[ret.id].status = "pending"
        /\ pending_actions[ret.id].session_id = ret.session_id
        /\ pending_actions[ret.id].original_action = "original_action"
        /\ pending_actions[ret.id].suggested_action = "suggested_action"
        /\ pending_actions[ret.id].llm_suggestion = "llm_suggestion"
        /\ pending_actions[ret.id].expires_at = pending_actions[ret.id].created_at + 30

\* C16: get_pending_action(id) never returns an action that is pending while
\* now > expires_at: when it returns, every stored pending action past its
\* expires_at has been made expired, by the call itself (the clock is not
\* moved by it).
C16_GetNeverReturnsPendingPastExpiry ==
    [][\A id \in ActionIds :
        Called("get_pending_action", id) =>
            /\ now' = now
            /\ ret'.ok <=> id \in DOMAIN pending_actions'
            /\ \A k \in DOMAIN pending_actions' :
                  ~( /\ pending_actions'[k].status = "pending"
                     /\ now > pending_actions'[k].expires_at )
            /\ \A k \in DOMAIN pending_actions \cap DOMAIN pending_actions' :
                  ( /\ pending_actions[k].status = "pending"
                    /\ now > pending_actions[k].expires_at )
                  => pending_actions'[k].status = "expired"
      ]_vars

\* C16 witness: get_pending_action returned an action whose time to live has
\* passed, and the action is expired.
C16_Witness ==
    /\ ret.op = "get_pending_action" /\ ret.ok
    /\ pending_actions[ret.id].status = "expired"
    /\ now > pending_actions[ret.id].expires_at
    /\ pending_actions[ret.id].confirmed_at = NoneVal

\* C17: get_pending_for_session(s) returns exactly the stored actions whose
\* session_id is s, whose status is pending and whose expires_at has not
\* passed at the time of the call.
C17_ListIsPendingOfSession ==
    [][ret'.op = "get_pending_for_session" =>
          ret'.found = {id \in DOMAIN pending_actions :
                          /\ pending_actions[id].session_id = ret'.session_id
                          /\ pending_actions[id].status = "pending"
                          /\ now <= pending_actions[id].expires_at}
      ]_vars

\* C17 witness: the listing returned an action and left out a stored action
\* of the same session that is not pending.
C17_Witness ==
    /\ ret.op = "get_pending_for_session"
    /\ ret.found # {}
    /\ \E id \in DOMAIN pending_actions \ ret.found :
          pending_actions[id].session_id = ret.session_id

\* C18: after a create_pending_action, confirm_action, reject_action or
\* mark_executed call has returned, the store holds no action whose
\* expires_at is more than 24 hours in the past.
C18_SweepOnEveryMutation ==
    ret.op \in {"create_pending_action", "confirm_action", "reject_action", "mark_executed"}
    => \A id \in DOMAIN pending_actions :
          ~(pending_actions[id].expires_at < now - 24 * 60)

(***************************************************************************)
(* Claims about the feedback ledger and the guidance, checked on SpecLearn *)
(* and SpecRolling.                                                        *)
(***************************************************************************)

\* C7: for every pattern key, after any sequence of record_feedback calls
\* (whatever their user_action, reason and outcome, failed calls included),
\* the stored success_rate equals accepted / total_suggestions.
C7_SuccessRateIsAcceptedOverTotal ==
    \A k \in DOMAIN patterns :
        /\ patterns[k].total_suggestions > 0
        /\ RatEq(patterns[k].success_rate,
                 Rat(patterns[k].accepted, patterns[k].total_suggestions))

\* the last min(n, Len(seq)) elements of seq, in order
LastMin(seq, n) ==
    LET m == IF Len(seq) < n THEN Len(seq) ELSE n
    IN  [i \in 1..m |-> seq[Len(seq) - m + i]]

\* the summaries of the suggestions recorded for key k with the given
\* user_action, in the order of the calls; a suggestion is recorded by a call
\* whose pattern update ran to its end
RecordedSummaries(k, user_action) ==
    LET recorded == SelectSeq(entries, LAMBDA e : /\ EntryKey(e) = k
                                                  /\ e.user_action = user_action
                                                  /\ ~UpdateRaises(e))
    IN  [i \in 1..Len(recorded) |-> SuggestionSummary(recorded[i])]

AskedKey == pattern_key(ret.current_action.type, ret.current_action.screen)

\* the fields the claims C9 and C10 read in the returned guidance
GuidanceFields ==
    {"should_suggest", "confidence_score", "suggested_approach",
     "avoid_patterns", "preferred_patterns", "historical_success_rate"}

\* C9: get_suggestion_guidance for a current_action whose pattern key has no
\* pattern returns should_suggest true, confidence_score 0.5,
\* suggested_approach "standard", empty avoid_patterns and preferred_patterns
\* and historical_success_rate 0.0.
C9_UnseenKeyGetsDefaults ==
    ( /\ ret.op = "get_suggestion_guidance"
      /\ AskedKey \notin DOMAIN patterns )
    => /\ GuidanceFields \subseteq DOMAIN ret.guidance
       /\ ret.guidance.should_suggest = TRUE
       /\ RatEq(ret.guidance.confidence_score, Rat(1, 2))
       /\ ret.guidance.suggested_approach = "standard"
       /\ ret.guidance.avoid_patterns = <<>>
       /\ ret.guidance.preferred_patterns = <<>>
       /\ RatEq(ret.guidance.historical_success_rate, Rat(0, 1))

\* C10: get_suggestion_guidance for a pattern key that has a pattern returns
\* historical_success_rate = success_rate and confidence_score =
\* min(0.9, success_rate); it returns should_suggest false with
\* suggested_approach "cautious" if and only if success_rate < 0.3, and
\* should_suggest true with "standard" otherwise.
C10_SeenKeyFollowsSuccessRate ==
    ( /\ ret.op = "get_suggestion_guidance"
      /\ AskedKey \in DOMAIN patterns )
    => LET rate == patterns[AskedKey].success_rate
           low == RatLess(rate, Rat(3, 10))
       IN  /\ GuidanceFields \subseteq DOMAIN ret.guidance
           /\ RatEq(ret.guidance.historical_success_rate, rate)
           /\ RatEq(ret.guidance.confidence_score,
                    IF RatLess(rate, Rat(9, 10)) THEN rate ELSE Rat(9, 10))
           /\ low => /\ ret.guidance.should_suggest = FALSE
                     /\ ret.guidance.suggested_approach = "cautious"
           /\ ~low => /\ ret.guidance.should_suggest = TRUE
                      /\ ret.guidance.suggested_approach = "standard"

\* the place of the j-th reason of a histogram in the order of the claim C11:
\* the number of reasons with a higher count, or the same count and an
\* earlier first insertion
RankOfReason(h, j) ==
    Cardinality({k \in 1..Len(h) : \/ h[k].count > h[j].count
                                   \/ h[k].count = h[j].count /\ k < j})

\* C11: after any sequence of record_feedback calls for a pattern key,
\* get_suggestion_guidance for the key returns as avoid_patterns the (at most
\* 3) rejection reasons with the highest counts, in descending order of count
\* with ties in first-insertion order, and as preferred_patterns the texts of
\* the (at most 3) last summaries of the accepted rolling list; three
\* rejections and one acceptance give success_rate 0.25 and should_suggest
\* false with the reason in avoid_patterns.
C11_AvoidAndPreferredPatterns ==
    ( /\ ret.op = "get_suggestion_guidance"
      /\ AskedKey \in DOMAIN patterns )
    => LET p == patterns[AskedKey]
           h == p.common_rejection_reasons
           acc == p.successful_suggestions
           n == IF Len(h) < 3 THEN Len(h) ELSE 3
           m == IF Len(acc) < 3 THEN Len(acc) ELSE 3
       IN  /\ GuidanceFields \subseteq DOMAIN ret.guidance
           /\ Len(ret.guidance.avoid_patterns) = n
           /\ \A j \in 1..Len(h) :
                 RankOfReason(h, j) < 3
                 => ret.guidance.avoid_patterns[RankOfReason(h, j) + 1] = h[j].reason
           /\ ret.guidance.preferred_patterns =
                 [i \in 1..m |-> acc[Len(acc) - m + i].business_suggestion]
           /\ ( /\ p.total_suggestions = 4 /\ p.rejected = 3 /\ p.accepted = 1
                /\ Len(h) = 1 /\ h[1].count = 3 )
              => /\ RatEq(p.success_rate, Rat(1, 4))
                 /\ ret.guidance.should_suggest = FALSE
                 /\ ret.guidance.avoid_patterns = <<h[1].reason>>

\* C19: record_feedback returns an entry id only when both files were
\* written completely and hold the ledger and the pattern table of the
\* memory; a failed write makes the call fail, the entry staying in the
\* in-memory ledger.
C19_SuccessMeansBothFilesWritten ==
    (ret.op = "record_feedback" /\ ret.ok)
    => /\ torn = {}
       /\ learning_file = entries
       /\ patterns_file = patterns
       /\ \E i \in 1..Len(entries) : entries[i].id = ret.id

\* C20: record_feedback with a user_action outside accepted / rejected /
\* ignored, or with a context that lacks required fields, does not apply: the
\* ledger and every pattern stay as they were.
C20_InvalidFeedbackDoesNotApply ==
    [][( /\ ret'.op = "record_feedback"
         /\ issued' = issued + 1
         /\ \/ ret'.user_action \notin {"accepted", "rejected", "ignored"}
            \/ ~ret'.ok /\ Len(entries') = Len(entries) )
       => /\ entries' = entries
          /\ patterns' = patterns
          /\ ~ret'.ok
      ]_vars

\* routes.py lines 755-771: the body POST /learning/feedback answers with after
\* record_user_feedback returned; r is the call as recorded in ret.  The
\* route answers 500 only when the call raises, and record_feedback catches
\* every exception itself (lines 271-273).
feedback_response(r) ==
    [status |-> "success",
     message |-> "Feedback recorded successfully",
     feedback_id |-> IF r.ok THEN Some(r.id) ELSE NoneVal]

\* C21: the feedback endpoint never answers with status success for a call of
\* RecordFeedback that produced no ledger entry id; every failure reaches the
\* caller as an error result.
C21_FailedFeedbackIsNotSuccess ==
    (ret.op = "record_feedback" /\ ~ret.ok)
        => feedback_response(ret).status # "success"

(***************************************************************************)
(* Failed calls and the fields no call writes                              *)
(***************************************************************************)
\* C22: a confirm_action or reject_action that fails because the id is not
\* stored, or because the action is no longer pending, leaves the whole store
\* as it was: no field of any action changes and no action is added or
\* removed.
C22_FailedConfirmOrRejectChangesNothing ==
    [][\A id \in ActionIds :
        ( /\ Called("confirm_action", id) \/ Called("reject_action", id)
          /\ ~ret'.ok
          /\ \/ id \notin DOMAIN pending_actions
             \/ pending_actions[id].status # "pending" )
            => pending_actions' = pending_actions
      ]_vars

\* C22 witness: a confirm_action has failed on an action that was executed
\* and is by now past its expires_at, while a second action is stored.
C22_Witness ==
    /\ ret.op = "confirm_action" /\ ~ret.ok
    /\ ret.id \in DOMAIN pending_actions
    /\ pending_actions[ret.id].status = "executed"
    /\ now > pending_actions[ret.id].expires_at
    /\ Cardinality(DOMAIN pending_actions) = 2

\* the fields create_pending_action writes and no other line assigns
IdentifyingFields ==
    {"action_id", "session_id", "created_at", "expires_at",
     "original_action", "suggested_action", "llm_suggestion"}

\* C30: expires_at and the identifying fields of a stored action (action_id,
\* session_id, created_at, original_action, suggested_action, llm_suggestion)
\* are never changed after the action was created: not by get_pending_action,
\* confirm_action, reject_action, mark_executed, get_pending_for_session,
\* get_status_summary or the cleanup.
C30_IdentifyingFieldsNeverChange ==
    [][\A id \in DOMAIN pending_actions \cap DOMAIN pending_actions' :
         \A f \in IdentifyingFields :
            pending_actions'[id][f] = pending_actions[id][f]
      ]_vars

\* C30 witness: get_status_summary has run its cleanup and counts an action
\* that became expired and one that was executed after its expires_at.
C30_Witness ==
    /\ ret.op = "get_status_summary"
    /\ ret.summary.total = 2
    /\ \E id \in DOMAIN pending_actions :
          /\ pending_actions[id].status = "expired"
          /\ pending_actions[id].expires_at < now
    /\ \E id \in DOMAIN pending_actions :
          /\ pending_actions[id].status = "executed"
          /\ pending_actions[id].executed_at # NoneVal
          /\ pending_actions[id].executed_at[1] > pending_actions[id].expires_at

(***************************************************************************)
(* Reset, the ledger and the statistics                                    *)
(***************************************************************************)
\* test_flask_app.py line 207: the total a caller reads from the statistics,
\* statistics.get('total_suggestions_tracked', 0)
TrackedTotal(statistics) ==
    IF "total_suggestions_tracked" \in DOMAIN statistics
    THEN statistics.total_suggestions_tracked
    ELSE 0

\* C25: after a reset the ledger is empty, the pattern table is empty, both
\* files hold the empty structures, and the statistics read then report zero
\* suggestions tracked.
C25_ResetEmptiesMemoryAndFiles ==
    [][ret'.op = "reset_learning_data" =>
          /\ entries' = <<>>
          /\ patterns' = EmptyMap
          /\ learning_file' = <<>>
          /\ patterns_file' = EmptyMap
          /\ torn' = {}
          /\ TrackedTotal(LearningStatistics(entries', now')) = 0
      ]_vars

\* a step that is not a reset keeps the ledger as a prefix of the new ledger
LedgerKept(old, new) ==
    /\ Len(old) <= Len(new)
    /\ SubSeq(new, 1, Len(old)) = old

\* C27: the ledger is append-only between two resets: every call other than
\* a reset leaves the entries there were and their order unchanged (ids,
\* timestamps, user_action, reason and context), and record_feedback changes
\* the ledger only by adding one entry at its end.
C27_LedgerIsAppendOnly ==
    [][ret'.op # "reset_learning_data" =>
          /\ LedgerKept(entries, entries')
          /\ Len(entries') <= Len(entries) + 1
          /\ entries' # entries =>
                /\ ret'.op = "record_feedback"
                /\ entries'[Len(entries')].id = issued'
                /\ entries'[Len(entries')].user_action = ret'.user_action
      ]_vars

\* C27 witness: the third record_feedback has added the entry of its id
\* behind the entry of the second call, which failed in its pattern update;
\* the entry of the first call is gone (a reset) or was never built.
C27_Witness ==
    /\ ret.op = "record_feedback" /\ ret.ok
    /\ Len(entries) = 2
    /\ entries[2].id = ret.id
    /\ entries[1].id = ret.id - 1
    /\ entries[1].feedback_reason = ArrayReason
    /\ ret.id = 3

\* the trend the two halves of a ledger give, with exact quotients: a1 of n1
\* accepted in the first half, a2 of n2 in the rest
TrendOfHalves(a1, n1, a2, n2) ==
    IF 10 * (a2 * n1 - a1 * n2) > n1 * n2 THEN "improving"
    ELSE IF 10 * (a1 * n2 - a2 * n1) > n1 * n2 THEN "declining"
    ELSE "stable"

\* C29: for every ledger of at least two entries the statistics report a
\* trend, computed from the first floor(n/2) entries and the rest: improving
\* when the acceptance rate of the later part exceeds that of the earlier part
\* by more than 0.1, declining when it is lower by more than 0.1, stable
\* otherwise.
C29_TrendForTwoOrMoreEntries ==
    (ret.op = "get_learning_statistics" /\ Len(ret.ledger) >= 2) =>
        LET n == Len(ret.ledger)
            half == n \div 2
            a1 == Cardinality({i \in 1..half : ret.ledger[i].user_action = "accepted"})
            a2 == Cardinality({i \in (half + 1)..n :
                                  ret.ledger[i].user_action = "accepted"})
        IN  /\ ret.ok
            /\ "learning_trends" \in DOMAIN ret.statistics
            /\ "trend" \in DOMAIN ret.statistics.learning_trends
            /\ ret.statistics.learning_trends.trend
                  = TrendOfHalves(a1, half, a2, n - half)

\* the same for the ledgers the code does analyse, of ten entries and more
TrendFromTenEntries ==
    (ret.op = "get_learning_statistics" /\ Len(ret.ledger) >= TrendMinimum) =>
        LET n == Len(ret.ledger)
            half == n \div 2
            a1 == Cardinality({i \in 1..half : ret.ledger[i].user_action = "accepted"})
            a2 == Cardinality({i \in (half + 1)..n :
                                  ret.ledger[i].user_action = "accepted"})
        IN  /\ ret.ok
            /\ ret.statistics.learning_trends.trend
                  = TrendOfHalves(a1, half, a2, n - half)

(***************************************************************************)
(* The similarity scan                                                     *)
(***************************************************************************)
\* the score, in tenths, that ledger entry i has against the request of the
\* last get_suggestion_guidance call: 5 for the same screen without regard to
\* case, 3 for the same action type, 2 for a Jaccard overlap of the two
\* screen sets above 0.3
RequestScore(i) ==
    LET a == entries[i].suggestion_context.original_action
        s1 == ret.business_context.most_common_screens
        s2 == entries[i].suggestion_context.business_context.most_common_screens
    IN  (IF Lower(a.screen.val) = Lower(ret.current_action.screen.val) THEN 5 ELSE 0)
      + (IF a.type = ret.current_action.type THEN 3 ELSE 0)
      + (IF s1 \cup s2 # {} /\ 10 * Cardinality(s1 \cap s2) > 3 * Cardinality(s1 \cup s2)
         THEN 2 ELSE 0)

\* entry i comes before entry j in the answer
RanksBefore(i, j) ==
    \/ RequestScore(i) > RequestScore(j)
    \/ RequestScore(i) = RequestScore(j) /\ i < j

\* the ledger entry the k-th similar context was made from (the timestamps of
\* the ledger are all different)
EntryOf(k) ==
    CHOOSE i \in DOMAIN entries :
        entries[i].timestamp = ret.guidance.similar_contexts[k].timestamp

\* C28: the similar_contexts of get_suggestion_guidance come only from the 50
\* most recent ledger entries; each has a score of at least 0.5, the score
\* being 0.5 for a screen match without regard to case plus 0.3 for the same
\* action type plus 0.2 for a Jaccard overlap of the screen sets above 0.3;
\* they are sorted by falling score, equal scores in ledger order; and they
\* are the first 5 at most.
C28_SimilarContextsAreTopFiveOfLastFifty ==
    (ret.op = "get_suggestion_guidance" /\ "similar_contexts" \in DOMAIN ret.guidance) =>
        LET sc == ret.guidance.similar_contexts
            recent == {i \in DOMAIN entries : i > Len(entries) - 50}
            matching == {i \in recent : RequestScore(i) >= 5}
            chosen == {EntryOf(k) : k \in DOMAIN sc}
        IN  /\ Len(sc) <= 5
            /\ \A k \in DOMAIN sc :
                  /\ \E i \in matching :
                        entries[i].timestamp = sc[k].timestamp
                  /\ sc[k].similarity_score = RequestScore(EntryOf(k))
                  /\ sc[k].action = entries[EntryOf(k)].user_action
                  /\ sc[k].feedback_reason = entries[EntryOf(k)].feedback_reason
            /\ \A k, l \in DOMAIN sc : k < l => RanksBefore(EntryOf(k), EntryOf(l))
            /\ \A i \in matching \ chosen :
                  /\ Len(sc) = 5
                  /\ RanksBefore(EntryOf(5), i)

\* C28 witness: the ledger is longer than 50 entries; a request got five
\* similar contexts, the first with a higher score than the last, while a
\* matching entry was left out and an older entry with the screen of the
\* request has left the window.
C28_Witness ==
    /\ ret.op = "get_suggestion_guidance"
    /\ "similar_contexts" \in DOMAIN ret.guidance
    /\ Len(entries) > 50
    /\ Len(ret.guidance.similar_contexts) = 5
    /\ ret.guidance.similar_contexts[1].similarity_score
          > ret.guidance.similar_contexts[5].similarity_score
    /\ \E i \in DOMAIN entries :
          /\ i <= Len(entries) - 50
          /\ RequestScore(i) >= 5
    /\ \E i \in DOMAIN entries :
          /\ i > Len(entries) - 50
          /\ RequestScore(i) >= 5
          /\ \A k \in 1..5 : EntryOf(k) # i

(***************************************************************************)
(* Claims about concurrent calls on the learning database                  *)
(* (SpecFeedbackRace, which starts from an empty ledger and table).        *)
(***************************************************************************)
Finished(t, op) == thread_op[t] = op /\ pc[t] = "done"

\* the table is the aggregate of the ledger, all of whose entries have the
\* key RaceKey
Aggregates(ledger, table) ==
    IF ledger = <<>> THEN table = EmptyMap
    ELSE /\ DOMAIN table = {RaceKey}
         /\ table[RaceKey].total_suggestions = Len(ledger)
         /\ table[RaceKey].accepted = CountAction(ledger, "accepted")
         /\ table[RaceKey].ignored = CountAction(ledger, "ignored")
         /\ table[RaceKey].rejected = 0
         /\ RatEq(table[RaceKey].success_rate,
                  Rat(CountAction(ledger, "accepted"), Len(ledger)))

\* C23: when two record_feedback calls for the same pattern key have run
\* with their statements interleaved, no update is lost: the ledger holds
\* both entries, total_suggestions and the counters of the two user actions
\* have grown by the two calls, and success_rate is accepted over
\* total_suggestions.
C23_NoLostUpdate ==
    (\A t \in Threads : Finished(t, "record_feedback")) =>
        /\ Len(entries) = 2
        /\ {entries[i].id : i \in DOMAIN entries} = {LocalEntry(t).id : t \in Threads}
        /\ Aggregates(entries, patterns)

\* C24: a read that runs while a record_feedback is running sees a committed
\* state: every pattern it sees has success_rate = accepted /
\* total_suggestions, and every ledger entry it sees is counted in the
\* pattern table it sees.
C24_ReaderSeesCommittedState ==
    \A t, u \in Threads :
        (Finished(t, "get_suggestion_guidance") /\ thread_op[u] = "record_feedback") =>
            LET seen == thread_ret[t][1]
            IN  /\ \A k \in DOMAIN seen.table :
                      seen.table[k].total_suggestions > 0 =>
                          RatEq(seen.table[k].success_rate,
                                Rat(seen.table[k].accepted,
                                    seen.table[k].total_suggestions))
                /\ seen.ledger # <<>> =>
                      /\ RaceKey \in DOMAIN seen.table
                      /\ seen.table[RaceKey].total_suggestions >= Len(seen.ledger)

\* C26: when a reset and a record_feedback that ran concurrently have both
\* returned, the state is empty, or it holds the one entry and a table that
\* aggregates that entry, in memory and in the two files alike; never an
\* entry without its pattern or a pattern without its entry.
C26_ResetIsAtomic ==
    \A t, u \in Threads :
        (Finished(t, "reset_learning_data") /\ Finished(u, "record_feedback")) =>
            /\ Len(entries) <= 1
            /\ Aggregates(entries, patterns)
            /\ Len(learning_file) <= 1
            /\ Aggregates(learning_file, patterns_file)

(***************************************************************************)
(* Expiry, ids and retention                                               *)
(***************************************************************************)
\* C36: reject_action never makes an action rejected when now > expires_at:
\* an action still stored as pending after its time to live is treated as
\* expired by reject_action, as it is by confirm_action.
C36_RejectAfterExpiryDoesNotReject ==
    [][\A id \in ActionIds :
        ( /\ Called("reject_action", id)
          /\ id \in DOMAIN pending_actions
          /\ pending_actions[id].status = "pending"
          /\ now > pending_actions[id].expires_at )
            => /\ ~ret'.ok
               /\ pending_actions'[id].status # "rejected"
      ]_vars

\* the calls that run _cleanup_expired
SweepingCalls ==
    {"create_pending_action", "get_pending_action", "get_pending_for_session",
     "get_status_summary"}

\* C40: no call removes an action earlier than 24 hours after its expires_at:
\* until then get_pending_action(id) returns the action whatever its status,
\* and an action is removed only by the cleanup.
C40_NoRemovalBeforeRetentionEnds ==
    [][\A id \in DOMAIN pending_actions :
        LET kept_until == pending_actions[id].expires_at + retention_hours * 60
        IN  /\ now' <= kept_until =>
                  /\ id \in DOMAIN pending_actions'
                  /\ Called("get_pending_action", id) => ret'.ok
            /\ id \notin DOMAIN pending_actions' =>
                  /\ ret'.op \in SweepingCalls
                  /\ now' > kept_until
      ]_vars

\* C40 witness: get_pending_action has returned a rejected action exactly 24
\* hours after its expires_at.
C40_Witness ==
    /\ ret.op = "get_pending_action" /\ ret.ok
    /\ pending_actions[ret.id].status = "rejected"
    /\ now = pending_actions[ret.id].expires_at + retention_hours * 60

C37_ReadsDoNotChangeOutcomes ==
    [][\A id \in ActionIds :
        LET swept == _cleanup_expired(pending_actions, now)
            Seen(store) == _cleanup_expired(store, now)
        IN  /\ Called("confirm_action", id) =>
                  /\ ret'.ok = ConfirmSucceeds(swept, id, now)
                  /\ Seen(pending_actions') = Seen(ConfirmStore(swept, id, now))
            /\ Called("reject_action", id) =>
                  /\ ret'.ok = RejectSucceeds(swept, id)
                  /\ Seen(pending_actions') = Seen(RejectStore(swept, id, now))
            /\ Called("mark_executed", id) =>
                  /\ ret'.ok = (id \in DOMAIN swept)
                  /\ \E r \in ExecutionResults :
                        Seen(pending_actions') = Seen(MarkExecutedStore(swept, id, now, r))
      ]_vars

(***************************************************************************)
(* Counters, histogram and keys of the pattern table                       *)
(***************************************************************************)
\* C34: for every pattern key, in every state reached by record_feedback
\* calls, those that fail included, total_suggestions = accepted + rejected
\* + ignored.
C34_TotalIsSumOfBuckets ==
    \A k \in DOMAIN patterns :
        patterns[k].total_suggestions
            = patterns[k].accepted + patterns[k].rejected + patterns[k].ignored

\* the count a histogram holds for a reason, 0 when it does not hold it
CountOf(histogram, r) ==
    IF \E i \in DOMAIN histogram : histogram[i].reason = r
    THEN (CHOOSE e \in {histogram[i] : i \in DOMAIN histogram} : e.reason = r).count
    ELSE 0

ReasonsOf(histogram) == {histogram[i].reason : i \in DOMAIN histogram}

\* the pattern of key k before a record_feedback step, a new one when the
\* key was not there
PatternBefore(k) ==
    IF k \in DOMAIN patterns THEN patterns[k] ELSE NewPattern(patterns'[k].last_updated)

EntriesOfKey(k) == Cardinality({i \in DOMAIN entries : EntryKey(entries[i]) = k})

\* C35: from the empty state, after any sequence of record_feedback, reset
\* and restart, each key's total_suggestions is the number of ledger entries
\* with that key, and the totals of all keys add up to the number of ledger
\* entries (every entry has its key in the table).
C35_TotalsMatchLedger ==
    /\ \A k \in DOMAIN patterns : patterns[k].total_suggestions = EntriesOfKey(k)
    /\ \A i \in DOMAIN entries : EntryKey(entries[i]) \in DOMAIN patterns

\* the pattern that line 365 reads for a request, none when the key is absent
Consulted(pats, action) ==
    LET key == pattern_key(action.type, action.screen)
    IN  IF key \in DOMAIN pats THEN Some(pats[key]) ELSE NoneVal

\* the four fields of the guidance that the claim names
NamedFields(g) ==
    <<g.should_suggest, g.confidence_score, g.avoid_patterns, g.preferred_patterns>>

\* C38: a record_feedback call for one (action_type, screen) pair leaves, for
\* every different pair, the pattern consulted and the should_suggest,
\* confidence_score, avoid_patterns and preferred_patterns of the guidance
\* as they were.
C38_FeedbackTouchesOnlyItsOwnPair ==
    [][(ret'.op = "record_feedback" /\ entries' # entries) =>
          LET e == entries'[Len(entries')]
              pair == <<e.pattern_features.action_type, e.pattern_features.screen>>
          IN  \A q \in KeyActions :
                  <<q.type, q.screen>> # pair =>
                      /\ Consulted(patterns', q) = Consulted(patterns, q)
                      /\ NamedFields(Guidance(patterns', entries', q, NoContext))
                            = NamedFields(Guidance(patterns, entries, q, NoContext))
      ]_vars

(***************************************************************************)
(* The confirm and reject request handlers                                 *)
(***************************************************************************)
\* the threads whose confirm_action wrote status confirmed and whose handler
\* has not reached its mark_executed yet
ConfirmInFlight ==
    {t \in Threads : /\ thread_op[t] = "confirm_action"
                     /\ pc[t] \in {"line52", "done", "execute"}}

\* the threads whose handler has answered after a manager call that returned
\* the action
Answered(op) ==
    {t \in Threads : /\ thread_op[t] = op
                     /\ pc[t] = "responded"
                     /\ thread_ret[t] # NoneVal}

\* C31: a proposal is in status confirmed only while a confirm request that
\* confirmed it is still running; every confirm handler that has answered
\* after a successful confirm has marked the proposal executed, on each of
\* its three paths.
C31_ConfirmedIsMarkedExecuted ==
    /\ pending_actions[RaceId].status = "confirmed" => ConfirmInFlight # {}
    /\ Answered("confirm_action") # {} =>
          /\ pending_actions[RaceId].executed_at # NoneVal
          /\ pending_actions[RaceId].execution_result # NoneVal

\* C31 witness: a confirm handler has answered after the authentication
\* failed and the proposal is executed with that result
C31_Witness ==
    /\ Answered("confirm_action") # {}
    /\ pending_actions[RaceId].status = "executed"
    /\ pending_actions[RaceId].execution_result = Some("auth_failed")

\* the number of ledger entries with a user action
CountEntries(user_action) ==
    Cardinality({i \in DOMAIN entries : entries[i].user_action = user_action})

\* C32: through the confirm and reject handlers the proposal gets at most one
\* ledger entry; once every request has answered, the ledger holds one
\* accepted entry for each confirm that succeeded, one rejected entry for
\* each reject that succeeded, and nothing for the requests that failed.
C32_OneEntryPerProposal ==
    /\ Len(entries) <= 1
    /\ (\A t \in Threads : pc[t] \in {"idle", "responded"}) =>
          /\ CountEntries("accepted") = Cardinality(Answered("confirm_action"))
          /\ CountEntries("rejected") = Cardinality(Answered("reject_action"))
          /\ Len(entries) = CountEntries("accepted") + CountEntries("rejected")

====
